---- MODULE Spec2Model ----
\* Model of main_single.py: the timed-input game flow (main / play), the
\* warning Timer running display_status in the background, the result
\* tabulator calc_result, the KeyboardInterrupt handler, and the units
\* teletype, fade_in and set_cursor run on their own.
EXTENDS Integers, Sequences, FiniteSets, Bags, TLC

\* ---------------------------------------------------------------- bounds
MaxQuestions == 2      \* questions in the content bundle
NumAnswers == 2        \* answers per question
MaxTimers == 2         \* Timer threads that may be alive at once
TextLen == 2           \* characters of a status-line message
ResetTime == 2         \* input_options.reset_time, in clock ticks
MaxResp == 5           \* longest response list handed to calc_result alone
WinRows == 2           \* rows of the window a unit paints into
WinCols == 2           \* columns of the window a unit paints into
MaxStr == 3            \* longest text handed to a text utility alone
MaxWidth == 3          \* largest width handed to a text utility alone
MaxText == 4           \* longest text handed to teletype or fade_in alone

\* ------------------------------------------------------------- constants
CategoryNames == <<"X", "Y", "Z", "W">>       \* category of the i-th answer as loaded
CalcCategories == {"A", "B", "C"}
NoneVal == "None"
NoKey == -1
NoTime == -1
LabelBases == {65, 97}                       \* 'A', 'a'
Keys == {97, 66, 122}                        \* 'a' 'B' 'z'

\* ------------------------------------------------------- str.lower/upper
Lower(c) == IF c >= 65 /\ c <= 90 THEN c + 32 ELSE c
UpperNoFold(c) == c
Upper(c) == IF c >= 97 /\ c <= 122 THEN c - 32 ELSE c

\* ---------------------------------------------------------- calc_result
\* Counter(responses): keys in first-seen order, with their counts.
RECURSIVE CounterKeys(_)
CounterKeys(r) ==
  IF r = <<>> THEN <<>>
  ELSE LET front == CounterKeys(SubSeq(r, 1, Len(r) - 1))
           last == r[Len(r)]
       IN IF \E i \in 1..Len(front) : front[i] = last
          THEN front ELSE Append(front, last)

CountOf(k, r) == Cardinality({i \in 1..Len(r) : r[i] = k})

InitAllEqualAlways(n) == TRUE
InitAllEqual(n) == n # 1

ExceedsOrTies(v, highest_count) == v >= highest_count
Exceeds(v, highest_count) == v > highest_count

AllEqualKeeps(all_equal, prev_v, v) ==
  IF all_equal /\ prev_v > 0 /\ v # prev_v THEN FALSE ELSE all_equal

RECURSIVE CalcLoop(_, _, _, _)
CalcLoop(r, keys, i, st) ==
  IF i > Len(keys) THEN st
  ELSE LET k == keys[i]
           v == CountOf(k, r)
           hit == Exceeds(v, st.highest_count)
       IN CalcLoop(r, keys, i + 1,
            [highest_count |-> IF hit THEN v ELSE st.highest_count,
             winner |-> IF hit THEN k ELSE st.winner,
             all_equal |-> AllEqualKeeps(st.all_equal, st.prev_v, v),
             prev_v |-> v])

calc_result(r) ==
  LET keys == CounterKeys(r)
      fin == CalcLoop(r, keys, 1,
               [highest_count |-> 0, winner |-> "unbound",
                all_equal |-> InitAllEqual(Len(keys)), prev_v |-> 0])
  IN IF ~fin.all_equal THEN fin.winner ELSE NoneVal

\* ---------------------------------------------------------------- state
VARIABLES
  game_qa,                \* game_content['questions_answers']: answer lists
  randomize,              \* game_content['randomize']
  questions_per_session,  \* game_content['questions_per_session']
  default_result,         \* game_content['default_result']
  a_label_base,           \* strings['answer_label'] as a code point
  warning_time,           \* input_options.reset_warning_time, or NoTime
  session_qa,             \* session['questions_answers']: indices into game_qa
  stored,                 \* session['user_responses']: <<>> or <<responses>>
  pc,                     \* position of the foreground task
  q_num,                  \* play(): index of the current round
  responses,              \* play(): local response list
  ch,                     \* play(): last value returned by await_timed_key
  pressed,                \* history: the accepted key of each finished round
  key_t,                  \* history: clock value at which ch was read
  play_ret,               \* value returned by play(): "none", "True", "False"
  result,                 \* display_results(): resolved outcome
  tabulated,              \* history: calc_result was called for this session
  body_cur,               \* body window cursor (units painted since reset)
  status_win,             \* status window: messages with characters on the line
  t,                      \* clock of the current timed wait
  warning_timer,          \* play()'s warning_timer: state, painted chars, saved cursor
  old_timers,             \* bag of Timer threads play() no longer refers to,
                          \* still inside their callback
  fg_kind,                \* foreground display_status message kind
  fg_pos,                 \* foreground display_status: characters painted
  fg_prev,                \* foreground display_status: saved body cursor
  calc_in,                \* tabulator run alone: its argument
  calc_out,               \* tabulator run alone: its return value
  calc_pc,                \* tabulator run alone: "idle", "ready", "done"
  tt,                     \* teletype run alone: its arguments, locals and window
  fi,                     \* fade_in run alone: its arguments, locals and window
  sc,                     \* set_cursor run alone: its arguments, locals and thread
  clr,                    \* the colour table run alone: init_colors, sessions, result pairs
  tx,                     \* a text utility called alone: center_text, wrap_text, indent_text
  inbuf,                  \* curses input queue: keys typed and not yet read
  flushed,                \* history: the keys the last flushinp() discarded
  ch_early                \* history: ch was typed before its timed wait began

contentVars == <<game_qa, randomize, questions_per_session, default_result,
                 a_label_base, warning_time>>
playVars == <<session_qa, stored, pc, q_num, responses, ch, pressed, key_t,
              play_ret, result, tabulated>>
winVars == <<body_cur, status_win>>
timerVars == <<t, warning_timer, old_timers>>
fgVars == <<fg_kind, fg_pos, fg_prev>>
calcVars == <<calc_in, calc_out, calc_pc>>
unitVars == <<tt, fi, sc, clr, tx>>
inputVars == <<inbuf, flushed, ch_early>>
vars == <<contentVars, playVars, winVars, timerVars, fgVars, calcVars, unitVars,
          inputVars>>

\* a function that is not being run on its own
NotCalled == [pc |-> "idle"]

NoTimer == [st |-> "none", pos |-> 0, prev |-> 0]
NewTimer == [st |-> "pending", pos |-> 0, prev |-> 0]

Perms(n) == {f \in [1..n -> 1..n] : \A i, j \in 1..n : f[i] = f[j] => i = j}

\* qa['answers'] as loaded: the answers of a question carry distinct
\* categories, in an order that differs from question to question
OriginalAnswers(q) ==
  [i \in 1..NumAnswers |-> CategoryNames[((i + q - 2) % NumAnswers) + 1]]

Init ==
  /\ game_qa = [q \in 1..MaxQuestions |-> OriginalAnswers(q)]
  /\ randomize = FALSE
  /\ questions_per_session \in 0..MaxQuestions
  /\ default_result = "X"
  /\ a_label_base \in LabelBases
  /\ warning_time \in (1..(ResetTime - 1)) \cup {NoTime}
  /\ session_qa = <<>>
  /\ stored = <<>>
  /\ pc = "menu"
  /\ q_num = 0
  /\ responses = <<>>
  /\ ch = NoKey
  /\ pressed = <<>>
  /\ key_t = 0
  /\ play_ret = "none"
  /\ result = NoneVal
  /\ tabulated = FALSE
  /\ body_cur = 0
  /\ status_win = {}
  /\ t = 0
  /\ warning_timer = NoTimer
  /\ old_timers = EmptyBag
  /\ fg_kind = "none"
  /\ fg_pos = 0
  /\ fg_prev = 0
  /\ calc_in = <<>>
  /\ calc_out = NoneVal
  /\ calc_pc = "idle"
  /\ inbuf = <<>>
  /\ flushed = <<>>
  /\ ch_early = FALSE
  /\ tt = NotCalled
  /\ fi = NotCalled
  /\ sc = NotCalled
  /\ clr = NotCalled
  /\ tx = NotCalled


\* ------------------------------------------------------------- helpers
AllowedResponses(base) == {Lower(base + a_num) : a_num \in 0..(NumAnswers - 1)}

AnswerIndexFirst(c, base) == 0
AnswerIndex(c, base) == Upper(c) - Upper(base)

\* Python list indexing: negative indices count from the end; 0 marks IndexError.
PyIndex(n, i) ==
  IF i >= 0 /\ i < n THEN i + 1
  ELSE IF i < 0 /\ i >= -n THEN n + i + 1
  ELSE 0

\* The body window cursor: 0 after reset_window, one step further after the
\* round's text and prompt, one more after the echoed key. addstr advances
\* the cursor; on the last cell teletype uses insstr, which leaves it there.
BodyCells == 2
Advance(c) == IF c < BodyCells THEN c + 1 ELSE c

\* teletype into the status window; the window is kept as the set of
\* messages that have characters on the line since the last clear().
StatusWrite(w, tag) == w \cup {tag}

\* threading.Timer.cancel(): stops a timer that is still waiting; a callback
\* that has already been entered is not affected.
CancelNothing(tm) == tm
Cancel(tm) == IF tm.st = "pending" THEN [tm EXCEPT !.st = "cancelled"] ELSE tm

\* threading.Timer.run(): the callback is called when the interval elapses.
FiresNever(tm, now, interval) == FALSE
Fires(tm, now, interval) == tm.st = "pending" /\ now = interval

IsAlive(tm) == tm.st \in {"pending", "running"}

\* The Timer threads other than tm that are still running their callback,
\* once play() rebinds or drops its reference to tm.
Orphaned(tm, old) ==
  IF tm.st = "running"
  THEN old (+) SetToBag({[pos |-> tm.pos, prev |-> tm.prev]})
  ELSE old

\* responses.append(a_category)
RecordResponseTwice(rs, a_category) == Append(Append(rs, a_category), a_category)
RecordResponse(rs, a_category) == Append(rs, a_category)

\* where play() goes once display_status has written a foreground message:
\* after err_invalid_input the while loop comes round again, after
\* err_no_input play() sleeps and returns False
AfterStatusAbort(kind) == "noinput"
AfterStatus(kind) == IF kind = "invalid" THEN "arm" ELSE "noinput"

EnterResultsAlways(ret) == TRUE
EnterResults(ret) == ret = "True"

Rounds == Len(session_qa)
CurrentAnswers == game_qa[session_qa[q_num + 1]]

\* ------------------------------------------------------------ main loop
GameChoice ==
  /\ pc = "menu"
  /\ pc' = "session"
  /\ UNCHANGED <<contentVars, session_qa, stored, q_num, responses, ch,
                 pressed, key_t, play_ret, result, tabulated, winVars,
                 timerVars, fgVars, calcVars, unitVars, inputVars>>

InitSession ==
  /\ pc = "session"
  /\ \E order \in Perms(MaxQuestions) :
       /\ randomize \/ order = [i \in 1..MaxQuestions |-> i]
       /\ LET n == IF questions_per_session < MaxQuestions
                   THEN questions_per_session ELSE MaxQuestions
              qa_set == [i \in 1..n |-> order[i]]
              chosen == {qa_set[i] : i \in 1..n}
          IN /\ session_qa' = qa_set
             /\ \E shuf \in [1..MaxQuestions -> Perms(NumAnswers)] :
                  /\ \A q \in 1..MaxQuestions :
                       (~randomize \/ q \notin chosen)
                          => shuf[q] = [i \in 1..NumAnswers |-> i]
                  /\ game_qa' = [q \in 1..MaxQuestions |->
                                   [i \in 1..NumAnswers |-> game_qa[q][shuf[q][i]]]]
  /\ stored' = <<>>
  /\ body_cur' = 0
  /\ status_win' = {}
  /\ pc' = "title"
  \* the locals of the previous play() call are gone
  /\ q_num' = 0
  /\ responses' = <<>>
  /\ pressed' = <<>>
  /\ ch' = NoKey
  /\ key_t' = 0
  /\ old_timers' = Orphaned(warning_timer, old_timers)
  /\ warning_timer' = NoTimer
  /\ UNCHANGED <<randomize, questions_per_session, default_result,
                 a_label_base, warning_time, play_ret, result, tabulated, t,
                 fgVars, calcVars, unitVars, inputVars>>

\* curses.flushinp(): the keys typed ahead and not yet read are thrown away
FlushNothing(buf) == buf
FlushInp(buf) == << >>

DisplayTitle ==
  /\ pc = "title"
  /\ pc' = "intro"
  /\ UNCHANGED <<contentVars, session_qa, stored, q_num, responses, ch,
                 pressed, key_t, play_ret, result, tabulated, winVars,
                 timerVars, fgVars, calcVars, unitVars>>
  /\ inbuf' = FlushInp(inbuf)
  /\ UNCHANGED <<flushed, ch_early>>

DisplayIntro ==
  /\ pc = "intro"
  /\ pc' = "play"
  /\ body_cur' = 0
  /\ UNCHANGED <<contentVars, session_qa, stored, q_num, responses, ch,
                 pressed, key_t, play_ret, result, tabulated, status_win,
                 timerVars, fgVars, calcVars, unitVars>>
  /\ inbuf' = FlushInp(inbuf)
  /\ UNCHANGED <<flushed, ch_early>>

MainAfterPlay ==
  /\ pc = "after_play"
  /\ IF EnterResults(play_ret)
     THEN /\ pc' = "results"
          /\ body_cur' = 0
          /\ status_win' = {}
     ELSE /\ pc' = "session"
          /\ UNCHANGED winVars
  /\ UNCHANGED <<contentVars, session_qa, stored, q_num, responses, ch,
                 pressed, key_t, play_ret, result, tabulated, timerVars,
                 fgVars, calcVars, unitVars, inputVars>>

DisplayResults ==
  /\ pc = "results"
  /\ IF stored = <<>>
     THEN /\ pc' = "crashed"
          /\ UNCHANGED <<result, tabulated>>
     ELSE /\ result' = (LET r == calc_result(stored[1])
                        IN IF r = NoneVal THEN default_result ELSE r)
          /\ tabulated' = TRUE
          /\ pc' = "restart"
  /\ UNCHANGED <<contentVars, session_qa, stored, q_num, responses, ch,
                 pressed, key_t, play_ret, winVars, timerVars, fgVars,
                 calcVars, unitVars, inputVars>>

AwaitRestart ==
  /\ pc = "restart"
  /\ pc' = "session"
  /\ UNCHANGED <<contentVars, session_qa, stored, q_num, responses, ch,
                 pressed, key_t, play_ret, result, tabulated, winVars,
                 timerVars, fgVars, calcVars, unitVars>>
  /\ inbuf' = FlushInp(inbuf)
  /\ UNCHANGED <<flushed, ch_early>>


\* ---------------------------------------------------------------- play()
PlayBegin ==
  /\ pc = "play"
  /\ responses' = <<>>
  /\ pressed' = <<>>
  /\ q_num' = 0
  /\ pc' = "round"
  \* history of the previous cycle ends here
  /\ play_ret' = "none"
  /\ result' = NoneVal
  /\ tabulated' = FALSE
  /\ UNCHANGED <<contentVars, session_qa, stored, ch, key_t, winVars,
                 timerVars, fgVars, calcVars, unitVars, inputVars>>

RoundStart ==
  /\ pc = "round"
  /\ q_num < Rounds
  /\ body_cur' = 0
  /\ pc' = "paint"
  /\ UNCHANGED <<contentVars, session_qa, stored, q_num, responses, ch,
                 pressed, key_t, play_ret, result, tabulated, status_win,
                 timerVars, fgVars, calcVars, unitVars, inputVars>>

\* teletype of the title bar, the question, the answers and the input prompt
PaintRound ==
  /\ pc = "paint"
  /\ body_cur' = Advance(body_cur)
  /\ pc' = "arm"
  /\ UNCHANGED <<contentVars, session_qa, stored, q_num, responses, ch,
                 pressed, key_t, play_ret, result, tabulated, status_win,
                 timerVars, fgVars, calcVars, unitVars, inputVars>>

\* warning_timer = get_warning_timer(); warning_timer.start(); the timed read
\* begins. A Timer whose callback is still running is only dereferenced: its
\* thread goes on. MaxTimers caps the threads left running that way.
ArmTimer ==
  /\ pc = "arm"
  /\ BagCardinality(Orphaned(warning_timer, old_timers)) < MaxTimers
  /\ old_timers' = Orphaned(warning_timer, old_timers)
  /\ warning_timer' = NewTimer
  /\ t' = 0
  /\ ch' = NoKey
  /\ key_t' = 0
  /\ pc' = "wait"
  /\ UNCHANGED <<contentVars, session_qa, stored, q_num, responses, pressed,
                 play_ret, result, tabulated, winVars, fgVars, calcVars, unitVars>>
  /\ flushed' = inbuf
  /\ inbuf' = FlushInp(inbuf)
  /\ ch_early' = FALSE

\* The wait's clock advances; a pending timer whose interval elapses enters
\* display_status: it saves the body cursor, clears the status window and
\* teletype paints the first character.
Tick ==
  /\ pc = "wait"
  /\ inbuf = <<>>
  /\ t < ResetTime
  /\ t' = t + 1
  /\ IF Fires(warning_timer, t + 1, warning_time)
     THEN /\ warning_timer' = [st |-> "running", pos |-> 1, prev |-> body_cur]
          /\ status_win' = StatusWrite({}, "w")
     ELSE UNCHANGED <<warning_timer, status_win>>
  /\ UNCHANGED <<contentVars, playVars, body_cur, old_timers, fgVars, calcVars, unitVars>>
  /\ UNCHANGED inputVars

\* await_timed_key returns an allowed key: cancel, record, echo.
KeyValid(k) ==
  /\ pc = "wait"
  /\ IF inbuf = <<>> THEN TRUE ELSE k = inbuf[1]
  /\ t < ResetTime
  /\ Lower(k) \in AllowedResponses(a_label_base)
  /\ ch' = k
  /\ key_t' = t
  /\ warning_timer' = Cancel(warning_timer)
  /\ LET a_index == PyIndex(NumAnswers, AnswerIndex(k, a_label_base))
     IN IF a_index = 0
        THEN /\ pc' = "crashed"
             /\ UNCHANGED <<responses, pressed, body_cur>>
        ELSE /\ responses' = RecordResponse(responses, CurrentAnswers[a_index])
             /\ pressed' = Append(pressed, k)
             /\ body_cur' = Advance(body_cur)
             /\ pc' = "reflect"
  /\ t' = 0
  /\ UNCHANGED <<contentVars, session_qa, stored, q_num, play_ret, result,
                 tabulated, status_win, old_timers, fgVars, calcVars, unitVars>>
  /\ ch_early' = (inbuf # <<>>)
  /\ inbuf' = IF inbuf = <<>> THEN inbuf ELSE Tail(inbuf)
  /\ UNCHANGED flushed

\* await_timed_key returns a key that is not an answer label: cancel, then
\* display_status(err_invalid_input) starts on the foreground.
KeyInvalid(k) ==
  /\ pc = "wait"
  /\ IF inbuf = <<>> THEN TRUE ELSE k = inbuf[1]
  /\ t < ResetTime
  /\ Lower(k) \notin AllowedResponses(a_label_base)
  /\ ch' = k
  /\ key_t' = t
  /\ warning_timer' = Cancel(warning_timer)
  /\ fg_kind' = "invalid"
  /\ fg_prev' = body_cur
  /\ fg_pos' = 1
  /\ status_win' = StatusWrite({}, "m")
  /\ pc' = "status"
  /\ t' = 0
  /\ UNCHANGED <<contentVars, session_qa, stored, q_num, responses, pressed,
                 play_ret, result, tabulated, body_cur, old_timers, calcVars, unitVars>>
  /\ ch_early' = (inbuf # <<>>)
  /\ inbuf' = IF inbuf = <<>> THEN inbuf ELSE Tail(inbuf)
  /\ UNCHANGED flushed

\* await_timed_key returns -1: cancel, beep, display_status(err_no_input) starts.
TimedOut ==
  /\ pc = "wait"
  /\ inbuf = <<>>
  /\ t = ResetTime
  /\ ch' = NoKey
  /\ key_t' = t
  /\ warning_timer' = Cancel(warning_timer)
  /\ fg_kind' = "noinput"
  /\ fg_prev' = body_cur
  /\ fg_pos' = 1
  /\ status_win' = StatusWrite({}, "m")
  /\ pc' = "status"
  /\ t' = 0
  /\ UNCHANGED <<contentVars, session_qa, stored, q_num, responses, pressed,
                 play_ret, result, tabulated, body_cur, old_timers, calcVars, unitVars>>
  /\ UNCHANGED inputVars

\* foreground display_status: teletype paints the next character
FgStatusPaint ==
  /\ pc = "status"
  /\ fg_pos < TextLen
  /\ status_win' = StatusWrite(status_win, "m")
  /\ fg_pos' = fg_pos + 1
  /\ UNCHANGED <<contentVars, playVars, body_cur, timerVars, fg_kind,
                 fg_prev, calcVars, unitVars, inputVars>>

\* foreground display_status: main_win.move(*prev_pos); back in play()
FgStatusRestore ==
  /\ pc = "status"
  /\ fg_pos >= TextLen
  /\ body_cur' = fg_prev
  /\ pc' = AfterStatus(fg_kind)
  /\ fg_kind' = "none"
  /\ fg_pos' = 0
  /\ fg_prev' = 0
  /\ UNCHANGED <<contentVars, session_qa, stored, q_num, responses, ch,
                 pressed, key_t, play_ret, result, tabulated, status_win,
                 timerVars, calcVars, unitVars, inputVars>>

\* time.sleep(2); return False
PlayTimedOut ==
  /\ pc = "noinput"
  /\ play_ret' = "False"
  /\ pc' = "after_play"
  /\ UNCHANGED <<contentVars, session_qa, stored, q_num, responses, ch,
                 pressed, key_t, result, tabulated, winVars, timerVars,
                 fgVars, calcVars, unitVars, inputVars>>

\* time.sleep(input_reflect_pause); break; warning_timer.cancel(); next round
ReflectDone ==
  /\ pc = "reflect"
  /\ warning_timer' = Cancel(warning_timer)
  /\ q_num' = q_num + 1
  /\ pc' = "round"
  /\ ch' = NoKey
  /\ key_t' = 0
  /\ UNCHANGED <<contentVars, session_qa, stored, responses, pressed,
                 play_ret, result, tabulated, winVars, t, old_timers,
                 fgVars, calcVars, unitVars, inputVars>>

\* session['user_responses']['responses'] = responses; return True
PlayComplete ==
  /\ pc = "round"
  /\ q_num >= Rounds
  /\ stored' = <<responses>>
  /\ play_ret' = "True"
  /\ pc' = "after_play"
  /\ UNCHANGED <<contentVars, session_qa, q_num, responses, ch, pressed,
                 key_t, result, tabulated, winVars, timerVars, fgVars,
                 calcVars, unitVars, inputVars>>

\* ------------------------------------- warning callback (Timer thread)
\* display_status(timeout_warning) on a Timer thread: teletype paints the
\* next character of the warning into the status window
CbPaint ==
  /\ \/ /\ warning_timer.st = "running"
        /\ warning_timer.pos < TextLen
        /\ warning_timer' = [warning_timer EXCEPT !.pos = @ + 1]
        /\ UNCHANGED old_timers
     \/ \E x \in BagToSet(old_timers) :
          /\ x.pos < TextLen
          /\ old_timers' = (old_timers (-) SetToBag({x}))
                              (+) SetToBag({[x EXCEPT !.pos = @ + 1]})
          /\ UNCHANGED warning_timer
  /\ status_win' = StatusWrite(status_win, "w")
  /\ UNCHANGED <<contentVars, playVars, body_cur, t, fgVars, calcVars, unitVars, inputVars>>

\* display_status(timeout_warning) on a Timer thread, after the last
\* character: main_win.move(*prev_pos); main_win.refresh(); the thread ends
CbRestore ==
  /\ \/ /\ warning_timer.st = "running"
        /\ warning_timer.pos >= TextLen
        /\ body_cur' = warning_timer.prev
        /\ warning_timer' = [st |-> "finished", pos |-> warning_timer.pos, prev |-> 0]
        /\ UNCHANGED old_timers
     \/ \E x \in BagToSet(old_timers) :
          /\ x.pos >= TextLen
          /\ body_cur' = x.prev
          /\ old_timers' = old_timers (-) SetToBag({x})
          /\ UNCHANGED warning_timer
  /\ UNCHANGED <<contentVars, playVars, status_win, t, fgVars, calcVars, unitVars, inputVars>>

Next ==
  \/ GameChoice
  \/ InitSession
  \/ DisplayTitle
  \/ DisplayIntro
  \/ PlayBegin
  \/ RoundStart
  \/ PaintRound
  \/ ArmTimer
  \/ Tick
  \/ \E k \in Keys : KeyValid(k)
  \/ \E k \in Keys : KeyInvalid(k)
  \/ TimedOut
  \/ FgStatusPaint
  \/ FgStatusRestore
  \/ PlayTimedOut
  \/ ReflectDone
  \/ PlayComplete
  \/ MainAfterPlay
  \/ DisplayResults
  \/ AwaitRestart
  \/ CbPaint
  \/ CbRestore

Spec == Init /\ [][Next]_vars

\* ------------------------------------------------- keys typed ahead
\* The player presses a key while play() is not reading: during the teletype
\* of the round, the status message or the echo pause. The terminal queues
\* it; the model keeps one pending key.
TypeAhead(k) ==
  /\ pc \in {"paint", "arm", "reflect"} \/ (pc = "status" /\ fg_kind = "invalid")
  /\ inbuf = <<>>
  /\ inbuf' = <<k>>
  /\ UNCHANGED <<contentVars, playVars, winVars, timerVars, fgVars, calcVars,
                 unitVars, flushed, ch_early>>

NextTypeahead ==
  \/ Next
  \/ \E k \in Keys : TypeAhead(k)

\* one configuration: lower-case labels, a warning after one tick, two
\* questions per session
InitTypeahead ==
  /\ Init
  /\ a_label_base = 97
  /\ warning_time = 1
  /\ questions_per_session = 2

SpecTypeahead == InitTypeahead /\ [][NextTypeahead]_vars

\* ---------------------------------------------- calc_result on its own
RECURSIVE SeqsUpTo(_, _)
SeqsUpTo(S, n) ==
  IF n = 0 THEN {<<>>}
  ELSE LET shorter == SeqsUpTo(S, n - 1)
       IN shorter \cup {Append(q, x) : q \in {z \in shorter : Len(z) = n - 1}, x \in S}

InitCalc ==
  /\ game_qa = [q \in 1..MaxQuestions |-> OriginalAnswers(q)]
  /\ randomize = FALSE
  /\ questions_per_session = 0
  /\ default_result = "X"
  /\ a_label_base = 65
  /\ warning_time = NoTime
  /\ session_qa = <<>>
  /\ stored = <<>>
  /\ pc = "calc"
  /\ q_num = 0
  /\ responses = <<>>
  /\ ch = NoKey
  /\ pressed = <<>>
  /\ key_t = 0
  /\ play_ret = "none"
  /\ result = NoneVal
  /\ tabulated = FALSE
  /\ body_cur = 0
  /\ status_win = {}
  /\ t = 0
  /\ warning_timer = NoTimer
  /\ old_timers = EmptyBag
  /\ fg_kind = "none"
  /\ fg_pos = 0
  /\ fg_prev = 0
  /\ calc_in \in SeqsUpTo(CalcCategories, MaxResp)
  /\ calc_out = NoneVal
  /\ calc_pc = "ready"
  /\ inbuf = <<>>
  /\ flushed = <<>>
  /\ ch_early = FALSE
  /\ tt = NotCalled
  /\ fi = NotCalled
  /\ sc = NotCalled
  /\ clr = NotCalled
  /\ tx = NotCalled

CalcStep ==
  /\ calc_pc = "ready"
  /\ calc_out' = calc_result(calc_in)
  /\ calc_pc' = "done"
  /\ UNCHANGED <<contentVars, playVars, winVars, timerVars, fgVars, calc_in, unitVars, inputVars>>

NextCalc == CalcStep

SpecCalc == InitCalc /\ [][NextCalc]_vars


\* ------------------------- configurations the loader accepts unchecked
\* init_game_data only checks that the keys exist: a warning threshold past
\* the timeout and a label base at the end of the alphabet are loaded as they
\* are. (A threshold equal to the timeout, a race between the Timer thread
\* and the read's own timeout, is left out.)
ConfigWarningTimes == (1..(ResetTime + 1)) \ {ResetTime}
ConfigLabelBases == LabelBases \cup {122}       \* 'A', 'a', 'z'

InitConfig ==
  /\ game_qa = [q \in 1..MaxQuestions |-> OriginalAnswers(q)]
  /\ randomize = FALSE
  /\ questions_per_session \in 0..MaxQuestions
  /\ default_result = "X"
  /\ a_label_base \in ConfigLabelBases
  /\ warning_time \in ConfigWarningTimes \cup {NoTime}
  /\ session_qa = <<>>
  /\ stored = <<>>
  /\ pc = "menu"
  /\ q_num = 0
  /\ responses = <<>>
  /\ ch = NoKey
  /\ pressed = <<>>
  /\ key_t = 0
  /\ play_ret = "none"
  /\ result = NoneVal
  /\ tabulated = FALSE
  /\ body_cur = 0
  /\ status_win = {}
  /\ t = 0
  /\ warning_timer = NoTimer
  /\ old_timers = EmptyBag
  /\ fg_kind = "none"
  /\ fg_pos = 0
  /\ fg_prev = 0
  /\ calc_in = <<>>
  /\ calc_out = NoneVal
  /\ calc_pc = "idle"
  /\ inbuf = <<>>
  /\ flushed = <<>>
  /\ ch_early = FALSE
  /\ tt = NotCalled
  /\ fi = NotCalled
  /\ sc = NotCalled
  /\ clr = NotCalled
  /\ tx = NotCalled

SpecConfig == InitConfig /\ [][Next]_vars

\* ------------------------------------------- KeyboardInterrupt (__main__)
\* The interrupt is raised in the foreground wherever it is; it unwinds
\* main() and curses.wrapper(), whose cleanup hands the terminal back, and
\* only then reaches the except clause. The frames of main() and play() are
\* gone; the Timer threads are not.
Unwound == {"interrupted", "joining", "exited"}

KeyboardInterrupt ==
  /\ pc \notin Unwound \cup {"crashed", "calc"}
  /\ pc' = "interrupted"
  /\ session_qa' = <<>>
  /\ stored' = <<>>
  /\ q_num' = 0
  /\ responses' = <<>>
  /\ ch' = NoKey
  /\ pressed' = <<>>
  /\ key_t' = 0
  /\ play_ret' = "none"
  /\ result' = NoneVal
  /\ tabulated' = FALSE
  /\ body_cur' = 0
  /\ status_win' = {}
  /\ t' = 0
  /\ fg_kind' = "none"
  /\ fg_pos' = 0
  /\ fg_prev' = 0
  /\ UNCHANGED <<contentVars, warning_timer, old_timers, calcVars, unitVars, inputVars>>

\* A Timer still waiting when the interrupt came reaches its interval while
\* the handler is busy with the threads enumerated before it.
TimerFiresLate ==
  /\ pc = "interrupted"
  /\ warning_timer.st = "pending"
  /\ warning_time # NoTime
  /\ warning_timer' = [st |-> "running", pos |-> 1, prev |-> body_cur]
  /\ status_win' = StatusWrite({}, "w")
  /\ UNCHANGED <<contentVars, playVars, body_cur, t, old_timers, fgVars,
                 calcVars, unitVars, inputVars>>

\* for t in threading.enumerate()[1:]: t.cancel(); t.join() -- the threads
\* started earlier come first, and join() returns when the callback is over.
HandlerCancel ==
  /\ pc = "interrupted"
  /\ old_timers = EmptyBag
  /\ warning_timer' = Cancel(warning_timer)
  /\ pc' = "joining"
  /\ UNCHANGED <<contentVars, session_qa, stored, q_num, responses, ch,
                 pressed, key_t, play_ret, result, tabulated, winVars, t,
                 old_timers, fgVars, calcVars, unitVars, inputVars>>

\* the last join() has returned: print('You escaped!'), the process ends
HandlerExit ==
  /\ pc = "joining"
  /\ warning_timer.st # "running"
  /\ pc' = "exited"
  /\ UNCHANGED <<contentVars, session_qa, stored, q_num, responses, ch,
                 pressed, key_t, play_ret, result, tabulated, winVars,
                 timerVars, fgVars, calcVars, unitVars, inputVars>>

NextInterrupt ==
  \/ Next
  \/ KeyboardInterrupt
  \/ TimerFiresLate
  \/ HandlerCancel
  \/ HandlerExit

SpecInterrupt == Init /\ [][NextInterrupt]_vars

\* ------------------------------------------- units run on their own
\* main() and play() are not running while a unit is exercised alone.
ProgramNotRunning ==
  /\ game_qa = [q \in 1..MaxQuestions |-> OriginalAnswers(q)]
  /\ randomize = FALSE
  /\ questions_per_session = 0
  /\ default_result = "X"
  /\ a_label_base = 65
  /\ warning_time = NoTime
  /\ session_qa = <<>>
  /\ stored = <<>>
  /\ pc = "unit"
  /\ q_num = 0
  /\ responses = <<>>
  /\ ch = NoKey
  /\ pressed = <<>>
  /\ key_t = 0
  /\ play_ret = "none"
  /\ result = NoneVal
  /\ tabulated = FALSE
  /\ body_cur = 0
  /\ status_win = {}
  /\ t = 0
  /\ warning_timer = NoTimer
  /\ old_timers = EmptyBag
  /\ fg_kind = "none"
  /\ fg_pos = 0
  /\ fg_prev = 0
  /\ calc_in = <<>>
  /\ calc_out = NoneVal
  /\ calc_pc = "idle"
  /\ inbuf = <<>>
  /\ flushed = <<>>
  /\ ch_early = FALSE

progVars == <<contentVars, playVars, winVars, timerVars, fgVars, calcVars,
              inputVars>>

\* ------------------------------------------------------------ set_cursor
CursorStyles == {"none", "default", "waiting", "input"}
AnimatedStyles == {"waiting", "input"}

\* `style is 'none'`, `style is not 'default'`: identity of str objects. For
\* equal strings the outcome depends on whether the two objects are the same
\* (interned literal) or not (a string built at run time): sc.same.
IsLiteral(style, same, literal) == style = literal /\ same

InitCursor ==
  /\ ProgramNotRunning
  /\ tt = NotCalled
  /\ fi = NotCalled
  /\ clr = NotCalled
  /\ tx = NotCalled
  /\ \E style \in CursorStyles, same \in BOOLEAN, col \in 0..(WinCols - 1),
        row \in 0..(WinRows - 1), vis \in 0..2 :
       sc = [pc |-> "call", style |-> style, same |-> same,
             yx |-> <<row, col>>, curs |-> vis,
             animate_cursor_flag |-> FALSE, branch |-> "",
             cursor_col |-> -1, thread |-> "none", exc |-> ""]

\* lines 348-364 and 386-388: the flag is cleared, the branch is taken, the
\* terminal cursor is switched
ScBranch ==
  /\ sc.pc = "call"
  /\ LET branch == IF IsLiteral(sc.style, sc.same, "none") THEN "none"
                   ELSE IF ~IsLiteral(sc.style, sc.same, "default") THEN "animated"
                   ELSE "default"
     IN sc' = [sc EXCEPT !.pc = "branched",
                         !.branch = branch,
                         !.animate_cursor_flag = FALSE,
                         !.curs = IF branch = "default" THEN 1 ELSE 0,
                         !.cursor_col = IF branch = "animated" THEN sc.yx[2] ELSE -1]
  /\ UNCHANGED <<progVars, tt, fi, clr, tx>>

\* lines 380-385: the flag is set and the Thread is built from
\* args=(row, cursor_col, cursor_chars); no `row` is bound in set_cursor or
\* in the module, so the call raises NameError before the thread exists.
\* line 390: on the other branches `return cursor_t` reads a local that was
\* never assigned: UnboundLocalError.
ScLeave ==
  /\ sc.pc = "branched"
  /\ sc' = [sc EXCEPT !.pc = "raised",
                      !.animate_cursor_flag = (sc.branch = "animated"),
                      !.exc = IF sc.branch = "animated" THEN "NameError"
                              ELSE "UnboundLocalError"]
  /\ UNCHANGED <<progVars, tt, fi, clr, tx>>

NextCursor == ScBranch \/ ScLeave

SpecCursor == InitCursor /\ [][NextCursor]_vars

\* -------------------------------------------------------------- teletype
TextChars == {"a", "b", "\n"}

\* The curses window a unit paints into: WinRows x WinCols, not scrolling.
\* addstr(s) from cursor yx: each character is written at the cursor, which
\* then advances and wraps to the next row; a newline moves to the start of
\* the next row. When the cursor cannot advance (after the lower right cell,
\* or a newline on the last row) curses reports an error, which the Python
\* binding raises after the character is printed.
LastCell == <<WinRows - 1, WinCols - 1>>

RECURSIVE AddStr(_, _)
AddStr(yx, s) ==
  IF s = <<>> THEN [yx |-> yx, err |-> FALSE]
  ELSE LET y == yx[1]
           x == yx[2]
           rest == SubSeq(s, 2, Len(s))
       IN IF s[1] = "\n"
          THEN IF y = WinRows - 1 THEN [yx |-> yx, err |-> TRUE]
               ELSE AddStr(<<y + 1, 0>>, rest)
          ELSE IF x < WinCols - 1 THEN AddStr(<<y, x + 1>>, rest)
               ELSE IF y < WinRows - 1 THEN AddStr(<<y + 1, 0>>, rest)
               ELSE [yx |-> yx, err |-> TRUE]

\* text.splitlines(keepends=True)
RECURSIVE SplitLines(_, _)
SplitLines(text, line) ==
  IF text = <<>> THEN (IF line = <<>> THEN <<>> ELSE <<line>>)
  ELSE LET rest == SubSeq(text, 2, Len(text))
       IN IF text[1] = "\n"
          THEN <<Append(line, "\n")>> \o SplitLines(rest, <<>>)
          ELSE SplitLines(rest, Append(line, text[1]))

\* the units teletype iterates over
Units(text, mode) ==
  IF mode = "chr" THEN [k \in 1..Len(text) |-> <<text[k]>>]
  ELSE SplitLines(text, <<>>)

\* text[i + 1:] and ''.join(iter[i + 1:]): the units after the first i
RECURSIVE JoinFrom(_, _)
JoinFrom(iter, i) ==
  IF i >= Len(iter) THEN <<>> ELSE iter[i + 1] \o JoinFrom(iter, i + 1)

InitTeletype ==
  /\ ProgramNotRunning
  /\ fi = NotCalled
  /\ sc = NotCalled
  /\ clr = NotCalled
  /\ tx = NotCalled
  /\ \E text \in SeqsUpTo(TextChars, MaxText), mode \in {"chr", "line"},
        interruptable \in BOOLEAN :
       \E keyat \in 0..Len(Units(text, mode)) :
         tt = [pc |-> "loop", text |-> text, mode |-> mode,
               interruptable |-> interruptable,
               keyat |-> keyat,       \* a key is waiting once this many units are painted (0: never)
               iter |-> Units(text, mode),
               i |-> 0,               \* units painted by the loop
               yx |-> <<0, 0>>,
               calls |-> <<>>,        \* the strings handed to addstr / insstr
               interrupted |-> FALSE, ret |-> "none", exc |-> ""]

\* one pass of the for loop, lines 318-328
TtPaint ==
  /\ tt.pc = "loop"
  /\ tt.i < Len(tt.iter)
  /\ LET s == tt.iter[tt.i + 1]
         r == IF tt.yx = LastCell
              THEN [yx |-> tt.yx, err |-> FALSE]     \* insstr: the cursor stays
              ELSE AddStr(tt.yx, s)
         hit == tt.interruptable /\ tt.keyat = tt.i + 1
     IN tt' = IF r.err
              THEN [tt EXCEPT !.pc = "raised", !.exc = "curses.error",
                              !.calls = Append(@, s)]
              ELSE [tt EXCEPT !.pc = IF hit THEN "rest" ELSE "loop",
                              !.interrupted = hit,
                              !.i = @ + 1,
                              !.yx = r.yx,
                              !.calls = Append(@, s)]
  /\ UNCHANGED <<progVars, fi, sc, clr, tx>>

\* lines 330-335: the remainder in one addstr, then return True
TtRest ==
  /\ tt.pc = "rest"
  /\ LET rest == JoinFrom(tt.iter, tt.i)
         r == AddStr(tt.yx, rest)
     IN tt' = IF r.err
              THEN [tt EXCEPT !.pc = "raised", !.exc = "curses.error",
                              !.calls = Append(@, rest)]
              ELSE [tt EXCEPT !.pc = "returned", !.ret = "True",
                              !.yx = r.yx, !.calls = Append(@, rest)]
  /\ UNCHANGED <<progVars, fi, sc, clr, tx>>

\* the loop ran to its end: return False
TtReturn ==
  /\ tt.pc = "loop"
  /\ tt.i = Len(tt.iter)
  /\ tt' = [tt EXCEPT !.pc = "returned", !.ret = "False"]
  /\ UNCHANGED <<progVars, fi, sc, clr, tx>>

NextTeletype == TtPaint \/ TtRest \/ TtReturn

SpecTeletype == InitTeletype /\ [][NextTeletype]_vars

\* --------------------------------------------------------------- fade_in
FadeChars == {"a", "b", " ", "\n"}

\* text.splitlines(): the lines without their line ends
StripEnd(line) ==
  IF line # <<>> /\ line[Len(line)] = "\n" THEN SubSeq(line, 1, Len(line) - 1)
  ELSE line
Lines(text) == LET ls == SplitLines(text, <<>>)
               IN [k \in 1..Len(ls) |-> StripEnd(ls[k])]

\* ch not in [' ', '']
IsVisible(c) == c \notin {" ", ""}

\* chars: the visible characters keyed by coordinate, inside the window only
CharsOf(text) ==
  LET ls == Lines(text)
  IN {<<y, x, c>> \in (0..(WinRows - 1)) \X (0..(WinCols - 1)) \X FadeChars :
        /\ y < Len(ls)
        /\ x < Len(ls[y + 1])
        /\ c = ls[y + 1][x + 1]
        /\ IsVisible(c)}

\* random.shuffle(coords): any order of the coordinates
Orders(S) ==
  {f \in [1..Cardinality(S) -> S] :
     \A i, j \in 1..Cardinality(S) : f[i] = f[j] => i = j}

\* window.addstr(y, x, ch): writing the lower right cell raises after printing
AddStrAt(win, cell) ==
  [win |-> win \cup {cell}, err |-> (<<cell[1], cell[2]>> = LastCell)]

\* the cells the interrupted branch paints: `for coord in coords`
RepaintedNone(coords) == <<>>
Repainted(coords) == coords

InitFade ==
  /\ ProgramNotRunning
  /\ tt = NotCalled
  /\ sc = NotCalled
  /\ clr = NotCalled
  /\ tx = NotCalled
  /\ \E text \in SeqsUpTo(FadeChars, MaxText), interruptable \in BOOLEAN :
       \E coords \in Orders(CharsOf(text)) :
         \E keyat \in 0..Len(coords) :
           fi = [pc |-> "setup", text |-> text,
                 interruptable |-> interruptable,
                 keyat |-> keyat,     \* a key is waiting once this many cells are painted (0: never)
                 coords |-> coords,
                 k |-> 0,             \* cells painted by the loop
                 win |-> {},          \* cells written to the window
                 interrupted |-> FALSE, ret |-> "none", exc |-> ""]

\* line 453: spf = duration / (5 * len(coords))
FiSetup ==
  /\ fi.pc = "setup"
  /\ fi' = IF Len(fi.coords) = 0
           THEN [fi EXCEPT !.pc = "raised", !.exc = "ZeroDivisionError"]
           ELSE [fi EXCEPT !.pc = "loop"]
  /\ UNCHANGED <<progVars, tt, sc, clr, tx>>

\* one pass of the for loop, lines 457-463
FiPaint ==
  /\ fi.pc = "loop"
  /\ fi.k < Len(fi.coords)
  /\ LET r == AddStrAt(fi.win, fi.coords[fi.k + 1])
         hit == fi.interruptable /\ fi.keyat = fi.k + 1
     IN fi' = IF r.err
              THEN [fi EXCEPT !.pc = "raised", !.exc = "curses.error",
                              !.win = r.win]
              ELSE [fi EXCEPT !.pc = IF hit THEN "rest" ELSE "loop",
                              !.interrupted = hit,
                              !.k = @ + 1,
                              !.win = r.win]
  /\ UNCHANGED <<progVars, tt, sc, clr, tx>>

\* lines 465-468: every cell is painted again at once, then return True
FiRest ==
  /\ fi.pc = "rest"
  /\ LET again == Repainted(fi.coords)
         cells == {again[j] : j \in 1..Len(again)}
         err == \E c \in cells : AddStrAt({}, c).err
     IN fi' = IF err
              THEN [fi EXCEPT !.pc = "raised", !.exc = "curses.error"]
              ELSE [fi EXCEPT !.pc = "returned", !.ret = "True",
                              !.win = @ \cup cells]
  /\ UNCHANGED <<progVars, tt, sc, clr, tx>>

\* the loop ran to its end: return False
FiReturn ==
  /\ fi.pc = "loop"
  /\ fi.k = Len(fi.coords)
  /\ fi' = [fi EXCEPT !.pc = "returned", !.ret = "False"]
  /\ UNCHANGED <<progVars, tt, sc, clr, tx>>

NextFade == FiSetup \/ FiPaint \/ FiRest \/ FiReturn

SpecFade == InitFade /\ [][NextFade]_vars

\* ------------------------------------- sessions of a randomized game
\* As Init, with game_content['randomize'] either way.
InitShuffle ==
  /\ game_qa = [q \in 1..MaxQuestions |-> OriginalAnswers(q)]
  /\ randomize \in BOOLEAN
  /\ questions_per_session \in 0..MaxQuestions
  /\ default_result = "X"
  /\ a_label_base \in LabelBases
  /\ warning_time \in (1..(ResetTime - 1)) \cup {NoTime}
  /\ session_qa = <<>>
  /\ stored = <<>>
  /\ pc = "menu"
  /\ q_num = 0
  /\ responses = <<>>
  /\ ch = NoKey
  /\ pressed = <<>>
  /\ key_t = 0
  /\ play_ret = "none"
  /\ result = NoneVal
  /\ tabulated = FALSE
  /\ body_cur = 0
  /\ status_win = {}
  /\ t = 0
  /\ warning_timer = NoTimer
  /\ old_timers = EmptyBag
  /\ fg_kind = "none"
  /\ fg_pos = 0
  /\ fg_prev = 0
  /\ calc_in = <<>>
  /\ calc_out = NoneVal
  /\ calc_pc = "idle"
  /\ inbuf = <<>>
  /\ flushed = <<>>
  /\ ch_early = FALSE
  /\ tt = NotCalled
  /\ fi = NotCalled
  /\ sc = NotCalled
  /\ clr = NotCalled
  /\ tx = NotCalled

SpecShuffle == InitShuffle /\ [][Next]_vars

\* ---------------------------------------------------- the colour table
\* display_options.colors: the colour sets play() asks for by name, and
\* possibly more; the result messages are keyed by category.
ConfigColorSets == <<"default", "warning", "error", "hilite">>
ResultNames == {"X", "Y", "Z"}

\* init_colors: the i-th colour set of the configuration (counted from 1) is
\* written to curses pair i and bound to i
InitColorConfig(n) == [name \in {ConfigColorSets[i] : i \in 1..n} |->
                         CHOOSE i \in 1..n : ConfigColorSets[i] = name]

\* create_color_pair: i = len(session['colors']); the pair i is written;
\* session['colors'][color_set_name] = i
NextPairId(colors) == Cardinality(DOMAIN colors)
Bind(colors, name, i) ==
  [m \in DOMAIN colors \cup {name} |-> IF m = name THEN i ELSE colors[m]]

InitColors ==
  /\ ProgramNotRunning
  /\ tt = NotCalled
  /\ fi = NotCalled
  /\ sc = NotCalled
  /\ \E n \in 3..Len(ConfigColorSets) :
       clr = [pc |-> "start",
              n |-> n,                  \* colour sets in the configuration
              color_config |-> << >>,   \* the dict init_colors returns
              pairs |-> << >>,          \* curses pairs: the colour set each was last written for
              session |-> [user_responses |-> "none", colors |-> "none"],
              sessions |-> 0]
  /\ tx = NotCalled

\* line 951: color_config = init_colors(game_config), once, before the loop
ClrInitColors ==
  /\ clr.pc = "start"
  /\ clr' = [clr EXCEPT !.pc = "loop",
                        !.color_config = InitColorConfig(clr.n),
                        !.pairs = [i \in 1..clr.n |-> ConfigColorSets[i]]]
  /\ UNCHANGED <<progVars, tt, fi, sc, tx>>

\* lines 962-963: session = init_session(game_content);
\* session['colors'] = color_config -- the one dict, not a copy
ClrNewSession ==
  /\ clr.pc = "loop"
  /\ clr' = [clr EXCEPT !.pc = "session",
                        !.session = [user_responses |-> << >>,
                                     colors |-> "color_config"],
                        !.sessions = IF @ < 2 THEN @ + 1 ELSE @]
  /\ UNCHANGED <<progVars, tt, fi, sc, tx>>

\* play() returned True and display_results resolved `result`: lines 636-639
\* register the result's highlight pair in session['colors']
ClrResult(result_name) ==
  /\ clr.pc = "session"
  /\ LET i == NextPairId(clr.color_config)
     IN clr' = [clr EXCEPT !.pc = "loop",
                           !.session.user_responses = <<result_name>>,
                           !.color_config = Bind(@, result_name, i),
                           !.pairs = [j \in DOMAIN @ \cup {i} |->
                                        IF j = i THEN result_name ELSE @[j]]]
  /\ UNCHANGED <<progVars, tt, fi, sc, tx>>

\* play() returned False: no results, back to the top of the loop
ClrAbort ==
  /\ clr.pc = "session"
  /\ clr' = [clr EXCEPT !.pc = "loop"]
  /\ UNCHANGED <<progVars, tt, fi, sc, tx>>

NextColors ==
  \/ ClrInitColors
  \/ ClrNewSession
  \/ \E r \in ResultNames : ClrResult(r)
  \/ ClrAbort

SpecColors == InitColors /\ [][NextColors]_vars

\* ------------------------------------------------- the text utilities
\* Strings are sequences of characters.
StrChars == {"a", " ", "\n"}
IsSpace(c) == c \in {" ", "\n"}

\* ' ' * n and '\n' * n: empty for n <= 0
Spaces(n) == [i \in 1..n |-> " "]
Newlines(n) == [i \in 1..n |-> "\n"]

\* s[k:], for k of either sign
SliceFrom(s, k) ==
  LET from == IF k >= 0 THEN k ELSE Len(s) + k
      start == IF from < 0 THEN 0 ELSE IF from > Len(s) THEN Len(s) ELSE from
  IN SubSeq(s, start + 1, Len(s))

\* s[:k], for k >= 0
SliceTo(s, k) == SubSeq(s, 1, IF k < Len(s) THEN k ELSE Len(s))

\* str.splitlines(keepends=True)
RECURSIVE SplitKeepEnds(_)
SplitKeepEnds(s) ==
  IF s = <<>> THEN <<>>
  ELSE LET ends == {i \in 1..Len(s) : s[i] = "\n"}
           cut == IF ends = {} THEN Len(s)
                  ELSE CHOOSE i \in ends : \A j \in ends : i <= j
       IN <<SubSeq(s, 1, cut)>> \o SplitKeepEnds(SubSeq(s, cut + 1, Len(s)))

\* ''.join(parts)
RECURSIVE Flatten(_)
Flatten(parts) ==
  IF parts = <<>> THEN <<>> ELSE Head(parts) \o Flatten(Tail(parts))

\* '\n'.join(lines)
RECURSIVE JoinLines(_)
JoinLines(lines) ==
  IF lines = <<>> THEN <<>>
  ELSE IF Len(lines) = 1 THEN Head(lines)
  ELSE Head(lines) \o <<"\n">> \o JoinLines(Tail(lines))

\* center_text, lines 228-232: the length of the longest line
Longest(split_text) ==
  IF split_text = <<>> THEN 0
  ELSE CHOOSE n \in {Len(split_text[i]) : i \in DOMAIN split_text} :
         \A i \in DOMAIN split_text : Len(split_text[i]) <= n

\* padding_size = (width - length) // 2
PaddingWhole(width, length) == width - length
PaddingSize(width, length) == (width - length) \div 2

\* center_text, mode 'block'
CenterBlock(text, width) ==
  LET split_text == SplitKeepEnds(text)
      padding_size == PaddingSize(width, Longest(split_text))
  IN IF padding_size > 0
     THEN Flatten([i \in DOMAIN split_text |-> Spaces(padding_size) \o split_text[i]])
     ELSE IF padding_size < 0
     THEN Flatten([i \in DOMAIN split_text |-> SliceFrom(split_text[i], -padding_size)])
     ELSE text

\* center_text, mode 'line': the loop over the lines; a line whose padding is
\* zero is assigned to centered_text, not added to it
RECURSIVE CenterLines(_, _, _)
CenterLines(split_text, width, centered_text) ==
  IF split_text = <<>> THEN centered_text
  ELSE LET line == Head(split_text)
           padding_size == PaddingSize(width, Len(line))
       IN CenterLines(Tail(split_text), width,
            IF padding_size > 0 THEN centered_text \o Spaces(padding_size) \o line
            ELSE IF padding_size < 0 THEN centered_text \o SliceFrom(line, -padding_size)
            ELSE line)

\* center_text with an integer width; height 0 stands for height=None as
\* well: neither is greater than len(split_text)
center_text(text, mode, width, height) ==
  LET split_text == SplitKeepEnds(text)
      centered_text == IF mode = "block" THEN CenterBlock(text, width)
                       ELSE CenterLines(split_text, width, <<>>)
  IN IF height > Len(split_text)
     THEN Newlines((height - Len(split_text)) \div 2) \o centered_text
     ELSE centered_text

\* textwrap: every whitespace character becomes a space
Munge(s) == [i \in DOMAIN s |-> IF IsSpace(s[i]) THEN " " ELSE s[i]]

\* textwrap: the chunks are the maximal runs of whitespace and of
\* non-whitespace
RECURSIVE SplitChunks(_)
SplitChunks(s) ==
  IF s = <<>> THEN <<>>
  ELSE LET brk == {i \in 2..Len(s) : IsSpace(s[i]) # IsSpace(s[1])}
           cut == IF brk = {} THEN Len(s)
                  ELSE (CHOOSE i \in brk : \A j \in brk : i <= j) - 1
       IN <<SubSeq(s, 1, cut)>> \o SplitChunks(SubSeq(s, cut + 1, Len(s)))

\* chunk.strip() == ''
IsBlank(chunk) == \A i \in DOMAIN chunk : IsSpace(chunk[i])

\* textwrap: chunks are moved to the current line while they fit
RECURSIVE FillLine(_, _, _)
FillLine(chunks, cur_line, width) ==
  IF chunks # <<>> /\ Len(Flatten(cur_line)) + Len(Head(chunks)) <= width
  THEN FillLine(Tail(chunks), Append(cur_line, Head(chunks)), width)
  ELSE [cur_line |-> cur_line, chunks |-> chunks]

\* textwrap.TextWrapper._wrap_chunks for width > 0, break_long_words on
RECURSIVE WrapChunks(_, _, _, _)
WrapChunks(chunks, lines, width, drop_whitespace) ==
  IF chunks = <<>> THEN lines
  ELSE LET kept == IF drop_whitespace /\ IsBlank(Head(chunks)) /\ lines # <<>>
                   THEN Tail(chunks) ELSE chunks
           f == FillLine(kept, <<>>, width)
           long == f.chunks # <<>> /\ Len(Head(f.chunks)) > width
           space_left == width - Len(Flatten(f.cur_line))
           broken == IF long
                     THEN Append(f.cur_line, SliceTo(Head(f.chunks), space_left))
                     ELSE f.cur_line
           rest == IF long
                   THEN <<SliceFrom(Head(f.chunks), space_left)>> \o Tail(f.chunks)
                   ELSE f.chunks
           cur_line == IF drop_whitespace /\ broken # <<>> /\ IsBlank(broken[Len(broken)])
                       THEN SubSeq(broken, 1, Len(broken) - 1) ELSE broken
       IN WrapChunks(rest,
                     IF cur_line # <<>> THEN Append(lines, Flatten(cur_line)) ELSE lines,
                     width, drop_whitespace)

\* textwrap.wrap: ValueError("invalid width") unless width > 0
TextwrapWrap(line, width, drop_whitespace) ==
  IF width <= 0 THEN [raised |-> TRUE, lines |-> <<>>]
  ELSE [raised |-> FALSE,
        lines |-> WrapChunks(SplitChunks(Munge(line)), <<>>, width, drop_whitespace)]

\* wrap_text: each line of the text is wrapped on its own
RECURSIVE WrapEach(_, _, _)
WrapEach(split_text, width, preserve_whitespace) ==
  IF split_text = <<>> THEN [raised |-> FALSE, text |-> <<>>]
  ELSE LET line == Head(split_text)
           w == TextwrapWrap(line, width, ~preserve_whitespace)
           rest == WrapEach(Tail(split_text), width, preserve_whitespace)
       IN IF w.raised \/ rest.raised THEN [raised |-> TRUE, text |-> <<>>]
          ELSE [raised |-> FALSE,
                text |-> JoinLines(w.lines)
                         \o (IF line[Len(line)] = "\n" THEN <<"\n">> ELSE <<>>)
                         \o rest.text]

wrap_text(text, width, first_line_offset, preserve_whitespace) ==
  LET w == WrapEach(SplitKeepEnds(Spaces(first_line_offset) \o text), width,
                    preserve_whitespace)
  IN IF w.raised THEN w
     ELSE [raised |-> FALSE, text |-> SliceFrom(w.text, first_line_offset)]

\* textwrap.indent: the prefix goes before every line that is not blank
TextwrapIndent(text, prefix) ==
  LET split_text == SplitKeepEnds(text)
  IN Flatten([i \in DOMAIN split_text |->
                IF IsBlank(split_text[i]) THEN split_text[i]
                ELSE prefix \o split_text[i]])

indent_text(text, width, first_line_dedent) ==
  LET indented_text == TextwrapIndent(text, Spaces(width))
  IN IF first_line_dedent THEN SliceFrom(indented_text, width) ELSE indented_text

\* the arguments a text utility is called with, one call per behaviour
TextCall(fn, text, width, mode, height, offset, flag) ==
  [pc |-> "call", fn |-> fn, text |-> text, width |-> width, mode |-> mode,
   height |-> height, offset |-> offset, flag |-> flag, out |-> <<>>]

InitText ==
  /\ ProgramNotRunning
  /\ tt = NotCalled
  /\ fi = NotCalled
  /\ sc = NotCalled
  /\ clr = NotCalled
  /\ \E text \in SeqsUpTo(StrChars, MaxStr), width \in (-1)..MaxWidth :
       \/ \E mode \in {"block", "line"}, height \in 0..2 :
            tx = TextCall("center_text", text, width, mode, height, 0, FALSE)
       \/ \E first_line_offset \in 0..MaxWidth, preserve_whitespace \in BOOLEAN :
            tx = TextCall("wrap_text", text, width, "none", 0,
                          first_line_offset, preserve_whitespace)
       \/ \E first_line_dedent \in BOOLEAN :
            tx = TextCall("indent_text", text, width, "none", 0, 0, first_line_dedent)
       \/ \E col \in 0..MaxWidth :
            tx = TextCall("answer", text, width, "none", 0, col, FALSE)

TxCenter ==
  /\ tx.pc = "call"
  /\ tx.fn = "center_text"
  /\ tx' = [tx EXCEPT !.pc = "returned",
                      !.out = center_text(tx.text, tx.mode, tx.width, tx.height)]
  /\ UNCHANGED <<progVars, tt, fi, sc, clr>>

TxWrap ==
  /\ tx.pc = "call"
  /\ tx.fn = "wrap_text"
  /\ LET w == wrap_text(tx.text, tx.width, tx.offset, tx.flag)
     IN tx' = [tx EXCEPT !.pc = IF w.raised THEN "raised" ELSE "returned",
                         !.out = w.text]
  /\ UNCHANGED <<progVars, tt, fi, sc, clr>>

TxIndent ==
  /\ tx.pc = "call"
  /\ tx.fn = "indent_text"
  /\ tx' = [tx EXCEPT !.pc = "returned",
                      !.out = indent_text(tx.text, tx.width, tx.flag)]
  /\ UNCHANGED <<progVars, tt, fi, sc, clr>>

\* play, lines 742-743: col = body_win.getyx()[1];
\* text = indent_text(wrap_text(a['text'], width - col), col)
TxAnswer ==
  /\ tx.pc = "call"
  /\ tx.fn = "answer"
  /\ LET col == tx.offset
         w == wrap_text(tx.text, tx.width - col, 0, FALSE)
     IN tx' = [tx EXCEPT !.pc = IF w.raised THEN "raised" ELSE "returned",
                         !.out = IF w.raised THEN <<>>
                                 ELSE indent_text(w.text, col, TRUE)]
  /\ UNCHANGED <<progVars, tt, fi, sc, clr>>

NextText ==
  \/ TxCenter
  \/ TxWrap
  \/ TxIndent
  \/ TxAnswer

SpecText == InitText /\ [][NextText]_vars

\* ================================================================ claims
\* The answer whose displayed label equals the key, ignoring case.
LabelledAnswer(k) ==
  CHOOSE a \in 1..NumAnswers : Lower(a_label_base + (a - 1)) = Lower(k)

\* C1: when a round's timed read returns -1, play() returns False, the
\* response list is not stored in the session, calc_result is not called for
\* that session, and main goes from play() straight back to the loop top and
\* Title.
C1_TimeoutSkipsResults ==
  /\ [](play_ret = "False" =>
          /\ stored = <<>>
          /\ ~tabulated
          /\ pc \in {"after_play", "session", "title", "intro", "play"})
  /\ [][(pc = "noinput" /\ pc' # pc)
          => (pc' = "after_play" /\ play_ret' = "False")]_vars
  /\ [][(pc = "after_play" /\ play_ret = "False" /\ pc' # pc)
          => pc' = "session"]_vars
  /\ [][(pc = "session" /\ pc' # pc) => pc' = "title"]_vars

C1_Witness ==
  /\ pc = "title"
  /\ play_ret = "False"
  /\ stored = <<>>
  /\ ~tabulated

\* C2: when every round got an allowed key, play() returns True and the
\* stored list has one entry per round, in round order, the category of the
\* answer labelled with the key of that round; a unanimous list is tabulated
\* to its category.
C2_CompletedPlayStoresChoices ==
  /\ (pc = "after_play" /\ Len(pressed) = Rounds) => play_ret = "True"
  /\ (play_ret = "True" /\ pc \in {"after_play", "results", "restart"}) =>
       /\ stored # <<>>
       /\ Len(stored[1]) = Rounds
       /\ Len(pressed) = Rounds
       /\ \A i \in 1..Rounds :
            stored[1][i] = game_qa[session_qa[i]][LabelledAnswer(pressed[i])]
       /\ (pc = "restart" /\ Rounds > 0
             /\ \A i \in 1..Rounds : stored[1][i] = stored[1][1])
            => result = stored[1][1]

C2_Witness ==
  /\ pc = "restart"
  /\ play_ret = "True"
  /\ Rounds = 2
  /\ pressed = <<97, 66>>
  /\ stored = << <<"X", "X">> >>
  /\ result = "X"

\* C3: an allowed key read before the warning threshold elapses cancels the
\* wait's timer while it is still pending; its callback paints nothing.
C3_EarlyKeyNoWarning ==
  (pc = "reflect" /\ (warning_time = NoTime \/ key_t < warning_time)) =>
     /\ warning_timer.st = "cancelled"
     /\ warning_timer.pos = 0

C3_Witness ==
  /\ pc = "reflect"
  /\ warning_time = 1
  /\ key_t = 0
  /\ warning_timer.st = "cancelled"
  /\ "w" \notin status_win

\* C4: an allowed key read after the warning threshold and before the timeout
\* finds the warning on the status line; the key is returned and the category
\* of its answer is recorded for the round.
C4_LateKeyStillRecorded ==
  (pc = "reflect" /\ warning_time # NoTime /\ key_t >= warning_time) =>
     /\ warning_timer.st \in {"running", "finished"}
     /\ warning_timer.pos >= 1
     /\ "w" \in status_win
     /\ ch # NoKey
     /\ Len(responses) = q_num + 1
     /\ pressed[q_num + 1] = ch
     /\ responses[q_num + 1] = CurrentAnswers[LabelledAnswer(ch)]

C4_Witness ==
  /\ pc = "reflect"
  /\ warning_time = 1
  /\ key_t = 1
  /\ warning_timer.st = "running"
  /\ ch = 66
  /\ Len(responses) = q_num + 1

\* C5: once play() handles the timeout sentinel, the warning timer of that
\* request is neither pending nor running its callback.
C5_NoTimerActiveAfterTimeout ==
  ((pc = "status" /\ fg_kind = "noinput") \/ pc = "noinput"
     \/ (pc = "after_play" /\ play_ret = "False"))
    => ~IsAlive(warning_timer)

\* C6: when the loop of a round comes back after an invalid key to arm a
\* fresh warning timer, the timer armed by the previous iteration is no longer
\* alive (neither pending nor running its callback), so the round never has
\* two warning timers alive.
C6_AtMostOneTimerAlive ==
  (pc = "arm" /\ ch # NoKey) => ~IsAlive(warning_timer)

\* C7: the warning callback never changes the body window cursor, and it never
\* writes the status window while the foreground's own status message is
\* being written.
C7_CallbackTouchesOnlyStatusLine ==
  /\ [][CbRestore => body_cur' = body_cur]_vars
  /\ [](~(pc = "status"
           /\ (warning_timer.st = "running" \/ old_timers # EmptyBag)))

\* ------------------------------------------------ calc_result properties
DistinctCats(r) == {r[i] : i \in 1..Len(r)}
AllSameCount(r) == \A a, b \in DistinctCats(r) : CountOf(a, r) = CountOf(b, r)
GlobalTie(r) == Cardinality(DistinctCats(r)) > 1 /\ AllSameCount(r)
MaxCount(r) == CHOOSE m \in 0..Len(r) :
                 /\ \A a \in DistinctCats(r) : CountOf(a, r) <= m
                 /\ (r # <<>> => \E a \in DistinctCats(r) : CountOf(a, r) = m)
FirstIndex(a, r) == CHOOSE i \in 1..Len(r) :
                      r[i] = a /\ \A j \in 1..(i - 1) : r[j] # a
\* the position at which category a reaches count m
ReachIndex(a, m, r) == CHOOSE i \in 1..Len(r) :
                         r[i] = a /\ CountOf(a, SubSeq(r, 1, i)) = m

\* C8 (as stated): calc_result returns None exactly when there is more than
\* one distinct category and all distinct categories have the same count.
C8_NoneIffGlobalTie ==
  calc_pc = "done" => ((calc_out = NoneVal) <=> GlobalTie(calc_in))

\* C8 (amended): for a non-empty response list calc_result returns None
\* exactly on a global tie and a category of the list otherwise; for the
\* empty list it returns None.
C8_NoneIffGlobalTieOrEmpty ==
  calc_pc = "done" =>
    /\ (calc_out = NoneVal) <=> (calc_in = <<>> \/ GlobalTie(calc_in))
    /\ calc_out # NoneVal => calc_out \in DistinctCats(calc_in)

C8_Witness ==
  /\ calc_pc = "done"
  /\ calc_in = <<"A", "A", "B", "B">>
  /\ calc_out = NoneVal

C10_WinnerOnlyWithMajority ==
  (calc_pc = "done" /\ calc_out # NoneVal) =>
    \A a \in DistinctCats(calc_in) \ {calc_out} :
      CountOf(calc_out, calc_in) > CountOf(a, calc_in)

\* C11: the flow is Menu, Title, Intro, Play, Results, Title: Menu is left once
\* and never entered again; each cycle goes init_session, Title, Intro, Play in
\* that order; Results is entered only from a play() that returned True with
\* one response per round; after Results (and its restart prompt), or after a
\* play() that returned False, the loop starts over and Title comes next.
C11_FlowOrder ==
  /\ [][pc' = "menu" => pc = "menu"]_vars
  /\ [][(pc = "menu" /\ pc' # pc) => pc' = "session"]_vars
  /\ [][(pc' = "title" /\ pc' # pc) => pc = "session"]_vars
  /\ [][(pc = "title" /\ pc' # pc) => pc' = "intro"]_vars
  /\ [][(pc' = "intro" /\ pc' # pc) => pc = "title"]_vars
  /\ [][(pc = "intro" /\ pc' # pc) => pc' = "play"]_vars
  /\ [][(pc' = "play" /\ pc' # pc) => pc = "intro"]_vars
  /\ [][(pc' = "results" /\ pc' # pc) =>
          /\ pc = "after_play"
          /\ play_ret = "True"
          /\ Len(responses) = Rounds
          /\ stored = <<responses>>]_vars
  /\ [][(pc = "results" /\ pc' # pc) => pc' = "restart"]_vars
  /\ [][(pc = "restart" /\ pc' # pc) => pc' = "session"]_vars
  /\ [][(pc = "after_play" /\ pc' # pc) =>
          pc' = (IF play_ret = "True" THEN "results" ELSE "session")]_vars
  /\ [][(pc' = "session" /\ pc' # pc) =>
          pc \in {"menu", "restart", "after_play"}]_vars

\* back at Title after a Results screen
C11_Witness ==
  /\ pc = "title"
  /\ play_ret = "True"
  /\ tabulated

\* the keys that read as the displayed label of answer a: the label itself
\* and its other case
LabelKeys(a) ==
  LET a_label == a_label_base + (a - 1)
  IN {a_label, Lower(a_label), Upper(a_label)}

\* C12: the category recorded for a valid key is the category of the one
\* answer whose displayed label equals the key ignoring case; every displayed
\* answer is selected by the key of its own label, in either case, and every
\* key accepted as valid selects the answer labelled with it.
C12_KeySelectsLabelledAnswer ==
  /\ pc = "reflect" =>
       /\ Cardinality({a \in 1..NumAnswers :
                         Lower(a_label_base + (a - 1)) = Lower(ch)}) = 1
       /\ responses[q_num + 1] = CurrentAnswers[LabelledAnswer(ch)]
       /\ Len(responses) = q_num + 1
  /\ pc = "wait" =>
       /\ \A a \in 1..Len(CurrentAnswers) : \A k \in LabelKeys(a) :
            /\ Lower(k) \in AllowedResponses(a_label_base)
            /\ PyIndex(Len(CurrentAnswers), AnswerIndex(k, a_label_base)) = a
       /\ \A k \in 0..127 :
            Lower(k) \in AllowedResponses(a_label_base) =>
              \E a \in 1..Len(CurrentAnswers) :
                 /\ k \in LabelKeys(a)
                 /\ PyIndex(Len(CurrentAnswers), AnswerIndex(k, a_label_base)) = a

\* label base 'a', key 'B': the second answer of the round is recorded
C12_Witness ==
  /\ pc = "reflect"
  /\ a_label_base = 97
  /\ ch = 66
  /\ q_num = 1
  /\ responses[q_num + 1] = CurrentAnswers[2]

\* C13: an invalid key changes neither the round index, nor the round's
\* answers and accepted labels, nor the responses recorded so far; once its
\* message is written the same round arms a timer and waits for a key again.
C13_InvalidKeyKeepsRound ==
  /\ [][(\E k \in Keys : KeyInvalid(k)) =>
          /\ q_num' = q_num
          /\ responses' = responses
          /\ pressed' = pressed
          /\ session_qa' = session_qa
          /\ game_qa' = game_qa
          /\ AllowedResponses(a_label_base') = AllowedResponses(a_label_base)
          /\ pc' = "status"]_vars
  /\ [][(pc = "status" /\ fg_kind = "invalid") =>
          /\ q_num' = q_num
          /\ responses' = responses
          /\ session_qa' = session_qa
          /\ game_qa' = game_qa
          /\ pc' \in {"status", "arm"}]_vars
  /\ [][(pc = "arm" /\ ch # NoKey) =>
          /\ q_num' = q_num
          /\ responses' = responses
          /\ session_qa' = session_qa
          /\ game_qa' = game_qa
          /\ pc' \in {"arm", "wait"}]_vars
  /\ []((pc = "arm" /\ ch # NoKey) => (q_num < Rounds /\ Len(responses) = q_num))

\* the second round is about to wait again after the invalid key 'z'
C13_Witness ==
  /\ pc = "arm"
  /\ ch = 122
  /\ q_num = 1
  /\ Len(responses) = 1

\* C14: the response list is never longer than the number of rounds of the
\* session; while round q_num is painted, waited on or re-prompted the list
\* has q_num entries, and one entry more once the round's key is accepted;
\* the list stored in the session has one entry per round.
C14_ResponsesBoundedByRounds ==
  /\ Len(responses) <= Rounds
  /\ pc \in {"paint", "arm", "wait", "status", "noinput"} =>
       (q_num < Rounds /\ Len(responses) = q_num)
  /\ pc = "round" => (q_num <= Rounds /\ Len(responses) = q_num)
  /\ pc = "reflect" => (q_num < Rounds /\ Len(responses) = q_num + 1)
  /\ stored # <<>> => Len(stored[1]) = Rounds

\* the key of the last of two rounds has just been accepted
C14_Witness ==
  /\ pc = "reflect"
  /\ Rounds = 2
  /\ q_num = 1
  /\ Len(responses) = 2

\* C15: whenever play() waits for a key with a warning timer armed, the
\* timer's interval is strictly less than the timeout of the read.
C15_WarningBeforeTimeout ==
  (pc = "wait" /\ warning_time # NoTime) => warning_time < ResetTime

\* C16: once a KeyboardInterrupt has unwound curses.wrapper and the terminal
\* is handed back, no warning timer is pending and no callback is running:
\* they were all cancelled and joined before.
C16_NoTaskAliveAfterTerminalRelease ==
  pc \in Unwound => (~IsAlive(warning_timer) /\ old_timers = EmptyBag)

\* C17: set_cursor called with an animated style ('waiting' or 'input') comes
\* back with its animation task running, which then runs until its owner
\* stops it.
C17_AnimatedCursorTaskRuns ==
  (sc.pc \notin {"idle", "call", "branched"} /\ sc.style \in AnimatedStyles) =>
     (sc.pc = "returned" /\ sc.thread = "running" /\ sc.animate_cursor_flag)

\* the last character of the alphabet a base label belongs to
LastOfAlphabet(base) ==
  IF base >= 65 /\ base <= 90 THEN 90
  ELSE IF base >= 97 /\ base <= 122 THEN 122
  ELSE base
\* n labels counted up from base run past the alphabet
LabelOverflow(base, n) == n > 0 /\ base + (n - 1) > LastOfAlphabet(base)

\* C18: a round whose answers need more labels than the alphabet has left
\* after the base label is never painted or played: the program has stopped
\* before.
C18_LabelOverflowIsFatal ==
  (pc \in {"paint", "arm", "wait", "status", "reflect"}) =>
     ~LabelOverflow(a_label_base, Len(CurrentAnswers))

\* C19: a teletype call ends by returning; without a key (or when it is not
\* interruptable) every unit of the text was handed to the window once, in
\* order, and it returns False; with a key waiting after unit k, the units up
\* to k were painted one by one, the remainder of the text in a single further
\* call, and it returns True.
C19_TeletypePaintsAllAndReports ==
  tt.pc \in {"returned", "raised"} =>
    LET hit == tt.interruptable /\ tt.keyat > 0
        n == Len(tt.iter)
    IN /\ tt.pc = "returned"
       /\ JoinFrom(tt.calls, 0) = tt.text
       /\ ~hit => /\ tt.ret = "False"
                  /\ tt.calls = tt.iter
       /\ hit => /\ tt.ret = "True"
                 /\ Len(tt.calls) = tt.keyat + 1
                 /\ \A k \in 1..tt.keyat : tt.calls[k] = tt.iter[k]
                 /\ tt.calls[tt.keyat + 1] = JoinFrom(tt.iter, tt.keyat)

\* where the k-th character of a text lies: its row is the number of line
\* ends before it, its column the number of characters since the last one
RowOf(text, k) == Cardinality({j \in 1..(k - 1) : text[j] = "\n"})
ColOf(text, k) ==
  LET ends == {j \in 1..(k - 1) : text[j] = "\n"}
      last == IF ends = {} THEN 0 ELSE CHOOSE j \in ends : \A e \in ends : e <= j
  IN k - 1 - last
\* the non-blank character cells of a text that lie inside the window
VisibleCells(text) ==
  {<<RowOf(text, k), ColOf(text, k), text[k]>> :
     k \in {j \in 1..Len(text) :
              /\ text[j] \notin {" ", "\n"}
              /\ RowOf(text, j) < WinRows
              /\ ColOf(text, j) < WinCols}}

\* C20: when fade_in returns, the cells written to the window are exactly the
\* non-blank character cells of the text inside the window, each with its own
\* character; it returns True when a key interrupted it and False otherwise.
C20_FadeInPaintsExactlyTheText ==
  fi.pc = "returned" =>
    /\ fi.win = VisibleCells(fi.text)
    /\ fi.ret = (IF fi.interruptable /\ fi.keyat > 0 THEN "True" ELSE "False")

\* interrupted after the first of two cells
C20_Witness ==
  /\ fi.pc = "returned"
  /\ fi.text = <<"b", "\n", "a">>
  /\ fi.keyat = 1
  /\ fi.coords[1] = <<1, 0, "a">>
  /\ fi.ret = "True"
  /\ fi.win = {<<0, 0, "b">>, <<1, 0, "a">>}

\* C21: init_session leaves the game content as it was loaded: the answer
\* list of every question keeps its order, whatever randomize is.
C21_SessionLeavesContentIntact ==
  /\ [][InitSession => game_qa' = game_qa]_vars
  /\ [](game_qa = [q \in 1..MaxQuestions |-> OriginalAnswers(q)])

\* ---------------------------------------------------------------- C22
\* the colour table the running session reads through session['colors']
SessionColors == clr.color_config

\* C22: a session that has just been created has an empty response record and
\* no colour binding registered by an earlier playthrough: its colour table
\* holds the colour sets of the configuration only.
C22_FreshSessionHasNoResultBinding ==
  clr.pc = "session" =>
    /\ clr.session.user_responses = << >>
    /\ DOMAIN SessionColors \cap ResultNames = {}

\* ---------------------------------------------------------------- C23
\* C23: colour bindings are append-only: every step keeps each bound name
\* bound to the pair id it had, so no name is ever bound a second time.
C23_BindingsAppendOnly ==
  [][clr.pc \in {"loop", "session"} =>
       \A name \in DOMAIN clr.color_config :
          /\ name \in DOMAIN clr'.color_config
          /\ clr'.color_config[name] = clr.color_config[name]]_vars

\* ---------------------------------------------------------------- C27
\* C27: distinct colour-set names are bound to distinct pair ids, and the
\* curses pair of every bound name still holds the colours written for it.
C27_DistinctNamesDistinctPairs ==
  clr.pc \in {"loop", "session"} =>
    /\ \A a, b \in DOMAIN clr.color_config :
          a # b => clr.color_config[a] # clr.color_config[b]
    /\ \A name \in DOMAIN clr.color_config :
          clr.pairs[clr.color_config[name]] = name

\* ---------------------------------------------------------------- C26
\* C26: a key pressed before the timed wait of a round began is discarded:
\* while play() waits no earlier key is pending, and the key the wait
\* returned (recorded or rejected) was never one that was pending before it.
C26_EarlyKeyDiscarded ==
  /\ pc = "wait" => inbuf = <<>>
  /\ ~ch_early

\* the second round was answered with 'a' after a 'z' typed during its
\* animation had been thrown away
C26_Witness ==
  /\ pc = "reflect"
  /\ Len(pressed) = 2
  /\ flushed = <<122>>
  /\ ch = 97

\* ---------------------------------------------------------------- C24
\* C24: center_text, wrap_text and indent_text are total: no call, and no
\* wrap_text(answer, width - col) made by play(), ends in an exception.
C24_TextUtilitiesTotal == tx.pc # "raised"

\* ---------------------------------------------------------------- C25
\* center_text has returned for a single-line string no longer than the width
CenteredSingleLine ==
  /\ tx.pc = "returned"
  /\ tx.fn = "center_text"
  /\ \A i \in DOMAIN tx.text : tx.text[i] # "\n"
  /\ tx.width >= Len(tx.text)

\* the line of the output: what follows the newlines of the vertical centering
OutputLine == SliceFrom(tx.out, Cardinality({i \in DOMAIN tx.out : tx.out[i] = "\n"}))

\* C25 as stated: in both modes, for a single-line S and W >= len(S), the
\* output line has length max(len(S), W).
C25_CenteredLineFillsWidth ==
  CenteredSingleLine =>
    Len(OutputLine) = IF Len(tx.text) > tx.width THEN Len(tx.text) ELSE tx.width

\* C25 amended: in both modes, for a single-line S and W >= len(S), the output
\* line is S after floor((W - len(S)) / 2) spaces, with nothing behind it; the
\* empty string gives the empty line.
C25_CenteredLineLeftPadded ==
  CenteredSingleLine =>
    OutputLine = IF tx.text = <<>> THEN <<>>
                 ELSE Spaces((tx.width - Len(tx.text)) \div 2) \o tx.text

\* center_text('a', width=3) returned ' a'
C25_Witness ==
  /\ CenteredSingleLine
  /\ tx.text = <<"a">>
  /\ tx.width = 3
  /\ OutputLine = <<" ", "a">>

====
